---- MODULE Spec2Model ----
(***************************************************************************)
(* Model of the tuffysearch catalog scraper.                               *)
(*                                                                         *)
(*   scrape.py    page workers that align the two renderings of a page     *)
(*                and append RawCourse records to one shared list          *)
(*                (specification Spec)                                     *)
(*   main.py      the same orchestration, with the records processed in    *)
(*                place and stored in a dict keyed by str(course_id)       *)
(*                (specification SpecMain)                                 *)
(*   reprocess.py reprocess_course: RawCourse -> ProcessedCourse           *)
(*                (specification SpecReprocess)                            *)
(*   modules/util.py and clean.py                                          *)
(*                the text normalizer (specification SpecUtil)             *)
(*   the loop of loop_through_courses on one page (SpecAlign) and the      *)
(*   segmenter of get_course_info on one fragment (SpecSegment)            *)
(*                                                                         *)
(* Python strings are TLA+ strings; the Python string methods the code     *)
(* uses are defined character by character below.  A Python call that can  *)
(* raise is modelled by a record whose status field is "ok" or "error".    *)
(***************************************************************************)
EXTENDS Integers, Sequences, FiniteSets, TLC

VARIABLES
    program,    \* the script that runs: "scrape.py", "main.py", "reprocess.py",
                \* "clean.py", or "modules/util.py" for clean_text by itself
    main_pc,    \* scrape.py __main__: "submit", "wait", "shutdown", "save", "done"
    futures,    \* the list futures: the pages submitted, in order
    waited,     \* how many of the futures future.result() has been called on
    page,       \* per page: the state of its process_page call
    Courses,    \* the shared collection of all pages: the list of scrape.py,
                \* the items [key, value] of the dict of main.py in the order
                \* of their insertion
    origin,     \* for each element of Courses, the page that stored it
    output,     \* the content of the output file
    writes,     \* how often the output file has been written
    outcome,    \* the message __main__ logs at the end
    errors_logged,      \* "A thread encountered an error" messages
    rows_left,          \* rows the catalog can still serve (a bound on its size)
    overall_completed,  \* overall_progress: pages advanced
    raw,        \* reprocess.py: the RawCourse handed to reprocess_course
    parts,      \* the pieces the header of raw was written from
    called,     \* whether reprocess_course has been applied to raw
    result,     \* what reprocess_course returned or raised
    input_text, \* modules/util.py: the str handed to clean_text
    cleaned,    \* what clean_text returned and printed
    data,       \* clean.py: the objects of the catalog file that was loaded
    cleaned_data,   \* what clean.py printed and wrote
    fragment,   \* get_course_info: the nodes after the <hr> of one course
    segmented,  \* the blocks the segmenter made of fragment
    tables,     \* loop_through_courses: the rows of the two tables of one page
    loop        \* the state of the loop over tables

scrape_vars ==
    <<program, main_pc, futures, waited, page, Courses, origin, output, writes, outcome,
      errors_logged, rows_left, overall_completed>>

reprocess_vars == <<raw, parts, called, result>>

function_vars ==
    <<input_text, cleaned, data, cleaned_data, fragment, segmented, tables, loop>>

vars == <<scrape_vars, reprocess_vars, function_vars>>

(***************************************************************************)
(* Python built-ins used by the sources                                    *)
(***************************************************************************)
\* "_" stands for NO-BREAK SPACE, which str.strip() removes as it removes " "
Whitespace == {" ", "\t", "\n", "\r", "_"}

DigitChars == "0123456789"

UpperChars == "ABCDEFGHIJKLMNOPQRSTUVWXYZ"

LowerChars == "abcdefghijklmnopqrstuvwxyz"

CharAt(s, i) == SubSeq(s, i, i)

RECURSIVE IndexIn(_, _, _)
IndexIn(c, s, i) ==
    IF i > Len(s) THEN 0
    ELSE IF CharAt(s, i) = c THEN i
    ELSE IndexIn(c, s, i + 1)

isdigit(c) == IndexIn(c, DigitChars, 1) # 0

lower_char(c) ==
    LET k == IndexIn(c, UpperChars, 1)
    IN  IF k = 0 THEN c ELSE CharAt(LowerChars, k)

RECURSIVE lower(_)
lower(s) == IF s = "" THEN "" ELSE lower_char(Head(s)) \o lower(Tail(s))

RECURSIVE lstrip(_)
lstrip(s) ==
    IF s = "" THEN ""
    ELSE IF Head(s) \in Whitespace THEN lstrip(Tail(s))
    ELSE s

RECURSIVE rstrip(_)
rstrip(s) ==
    IF s = "" THEN ""
    ELSE IF CharAt(s, Len(s)) \in Whitespace THEN rstrip(SubSeq(s, 1, Len(s) - 1))
    ELSE s

strip(s) == rstrip(lstrip(s))

startswith(s, p) == Len(p) <= Len(s) /\ SubSeq(s, 1, Len(p)) = p

\* str.find / str.rfind: 0-based index of the first / last occurrence, -1 if none
RECURSIVE find_from(_, _, _)
find_from(s, sub, i) ==
    IF i + Len(sub) > Len(s) THEN -1
    ELSE IF SubSeq(s, i + 1, i + Len(sub)) = sub THEN i
    ELSE find_from(s, sub, i + 1)

find(s, sub) == find_from(s, sub, 0)

RECURSIVE rfind_from(_, _, _)
rfind_from(s, sub, i) ==
    IF i < 0 THEN -1
    ELSE IF SubSeq(s, i + 1, i + Len(sub)) = sub THEN i
    ELSE rfind_from(s, sub, i - 1)

rfind(s, sub) == rfind_from(s, sub, Len(s) - Len(sub))

\* the operator "sub in s"
contains(s, sub) == find(s, sub) # -1

\* s[start:stop] with Python's treatment of negative and out-of-range indices
slice_index(s, i) ==
    IF i < 0 THEN (IF i + Len(s) < 0 THEN 0 ELSE i + Len(s))
    ELSE IF i > Len(s) THEN Len(s) ELSE i

slice(s, start, stop) ==
    LET a == slice_index(s, start)
        b == slice_index(s, stop)
    IN  IF b <= a THEN "" ELSE SubSeq(s, a + 1, b)

\* s.split(sep): every piece between occurrences of sep, empty pieces kept
RECURSIVE split(_, _)
split(s, sep) ==
    LET k == find(s, sep)
    IN  IF k = -1 THEN <<s>>
        ELSE <<slice(s, 0, k)>> \o split(slice(s, k + Len(sep), Len(s)), sep)

\* s.split(sep, maxsplit=1)
split_maxsplit1(s, sep) ==
    LET k == find(s, sep)
    IN  IF k = -1 THEN <<s>>
        ELSE <<slice(s, 0, k), slice(s, k + Len(sep), Len(s))>>

\* int(s) for a string of ASCII digits; int("") raises ValueError
RECURSIVE int_digits(_, _)
int_digits(s, acc) ==
    IF s = "" THEN acc
    ELSE int_digits(Tail(s), 10 * acc + (IndexIn(Head(s), DigitChars, 1) - 1))

\* results of calls that may raise
Ok(v) == [status |-> "ok", value |-> v]

Raise(type, at) == [status |-> "error", type |-> type, at |-> at]

(***************************************************************************)
(* reprocess.py                                                            *)
(***************************************************************************)
\* lines 15-23: course code, title and units from the header
header_fields(header) ==
    LET header_parts == split_maxsplit1(header, "-")
    IN  IF Len(header_parts) < 2 THEN Raise("IndexError", "header_parts[1]")
        ELSE
          LET course_code == strip(header_parts[1])
              title_units == strip(header_parts[2])
              units == slice(title_units, rfind(title_units, "(") + 1,
                             rfind(title_units, ")"))
              title == strip(slice(title_units, 0, rfind(title_units, "(")))
          IN  Ok([course_code |-> course_code, title |-> title, units |-> units])

\* lines 28-33: the leading digits of the course number
RECURSIVE leading_digits(_)
leading_digits(course_number) ==
    IF course_number = "" THEN ""
    ELSE IF isdigit(Head(course_number))
         THEN Head(course_number) \o leading_digits(Tail(course_number))
    ELSE ""

\* lines 27-34: the course level
course_level_of(course_code) ==
    LET tokens == split(course_code, " ")
    IN  IF Len(tokens) < 2 THEN Raise("IndexError", "course_number")
        ELSE
          LET level_str == leading_digits(tokens[2])
          IN  IF level_str = "" THEN Raise("ValueError", "int(level_str)")
              ELSE Ok(int_digits(level_str, 0))

GradCreditBlocks ==
    {"graduate-level", "400-level undergraduate course available for graduate credit"}

\* block_rule with the "typically offered" test moved to the front of the chain
block_rule_offered_first(block) ==
    LET b == lower(block)
    IN  IF startswith(b, "typically offered") THEN 6
        ELSE IF contains(b, "requisite") \/ startswith(b, "prereq") THEN 1
        ELSE IF b = "undergraduate course not available for graduate credit" THEN 2
        ELSE IF b \in GradCreditBlocks THEN 3
        ELSE IF b = "one or more sections may be offered in any online format." THEN 4
        ELSE IF b = "department consent required" THEN 5
        ELSE 7

\* lines 55-73: the rule that handles one block, numbered as in the if/elif chain
block_rule(block) ==
    LET b == lower(block)
    IN  IF contains(b, "requisite") \/ startswith(b, "prereq") THEN 1
        ELSE IF b = "undergraduate course not available for graduate credit" THEN 2
        ELSE IF b \in GradCreditBlocks THEN 3
        ELSE IF b = "one or more sections may be offered in any online format." THEN 4
        ELSE IF b = "department consent required" THEN 5
        ELSE IF startswith(b, "typically offered") THEN 6
        ELSE 7

\* classify_block with the assignment of rule 3 copied into rule 2
classify_block_rule2_true(st, block) ==
    LET rule == block_rule(block)
        pc == st.course
    IN  CASE rule = 1 -> [st EXCEPT !.course = [pc EXCEPT !.prerequisites = block]]
          [] rule = 2 -> [st EXCEPT !.course = [pc EXCEPT !.grad_credit = TRUE]]
          [] rule = 3 -> [st EXCEPT !.course = [pc EXCEPT !.grad_credit = TRUE]]
          [] rule = 4 -> [st EXCEPT !.course = [pc EXCEPT !.available_online = TRUE]]
          [] rule = 5 -> [st EXCEPT !.course = [pc EXCEPT !.requires_dept_consent = TRUE]]
          [] rule = 6 ->
               LET pieces == split(block, ":")
               IN  IF Len(pieces) < 2
                   THEN [st EXCEPT !.status = "error",
                                   !.error = [type |-> "IndexError",
                                              at |-> "block.split(\":\")[1]"]]
                   ELSE [st EXCEPT !.course =
                            [pc EXCEPT !.typically_offered = strip(pieces[2])]]
          [] OTHER ->
               [st EXCEPT !.printed =
                   Append(@, "Unknown block in " \o pc.course_code \o ": " \o block)]

\* classify_block with an else branch that raises instead of printing
classify_block_unknown_raises(st, block) ==
    LET rule == block_rule(block)
        pc == st.course
    IN  CASE rule = 1 -> [st EXCEPT !.course = [pc EXCEPT !.prerequisites = block]]
          [] rule = 2 -> [st EXCEPT !.course = [pc EXCEPT !.grad_credit = FALSE]]
          [] rule = 3 -> [st EXCEPT !.course = [pc EXCEPT !.grad_credit = TRUE]]
          [] rule = 4 -> [st EXCEPT !.course = [pc EXCEPT !.available_online = TRUE]]
          [] rule = 5 -> [st EXCEPT !.course = [pc EXCEPT !.requires_dept_consent = TRUE]]
          [] rule = 6 ->
               LET pieces == split(block, ":")
               IN  IF Len(pieces) < 2
                   THEN [st EXCEPT !.status = "error",
                                   !.error = [type |-> "IndexError",
                                              at |-> "block.split(\":\")[1]"]]
                   ELSE [st EXCEPT !.course =
                            [pc EXCEPT !.typically_offered = strip(pieces[2])]]
          [] OTHER ->
               [st EXCEPT !.status = "error",
                          !.error = [type |-> "ValueError", at |-> "unknown block"]]

\* lines 55-73: one iteration of the loop over blocks[1:];
\* st = [status, course, printed] and an error ends the loop
classify_block(st, block) ==
    LET rule == block_rule(block)
        pc == st.course
    IN  CASE rule = 1 -> [st EXCEPT !.course = [pc EXCEPT !.prerequisites = block]]
          [] rule = 2 -> [st EXCEPT !.course = [pc EXCEPT !.grad_credit = FALSE]]
          [] rule = 3 -> [st EXCEPT !.course = [pc EXCEPT !.grad_credit = TRUE]]
          [] rule = 4 -> [st EXCEPT !.course = [pc EXCEPT !.available_online = TRUE]]
          [] rule = 5 -> [st EXCEPT !.course = [pc EXCEPT !.requires_dept_consent = TRUE]]
          [] rule = 6 ->
               LET pieces == split(block, ":")
               IN  IF Len(pieces) < 2
                   THEN [st EXCEPT !.status = "error",
                                   !.error = [type |-> "IndexError",
                                              at |-> "block.split(\":\")[1]"]]
                   ELSE [st EXCEPT !.course =
                            [pc EXCEPT !.typically_offered = strip(pieces[2])]]
          [] OTHER ->
               [st EXCEPT !.printed =
                   Append(@, "Unknown block in " \o pc.course_code \o ": " \o block)]

RECURSIVE classify_blocks(_, _)
classify_blocks(st, blocks) ==
    IF blocks = <<>> \/ st.status = "error" THEN st
    ELSE classify_blocks(classify_block(st, Head(blocks)), Tail(blocks))

NoError == [type |-> "", at |-> ""]

NoCourse == [course_code |-> ""]

Failed(type, at) ==
    [status |-> "error", error |-> [type |-> type, at |-> at],
     course |-> NoCourse, printed |-> <<>>]

\* lines 8-74
reprocess_course(course) ==
    LET hf == header_fields(course.header)
    IN  IF hf.status = "error" THEN Failed(hf.type, hf.at)
        ELSE
          LET lv == course_level_of(hf.value.course_code)
          IN  IF lv.status = "error" THEN Failed(lv.type, lv.at)
              ELSE IF Len(course.blocks) = 0
                   THEN Failed("IndexError", "course[\"blocks\"][0]")
              ELSE
                LET processed_course ==
                      [course_id |-> course.course_id,
                       department |-> course.department,
                       course_level |-> lv.value,
                       title |-> hf.value.title,
                       description |-> course.blocks[1],
                       course_code |-> hf.value.course_code,
                       units |-> hf.value.units,
                       prerequisites |-> "",
                       grad_credit |-> FALSE,
                       available_online |-> FALSE,
                       requires_dept_consent |-> FALSE,
                       typically_offered |-> ""]
                    done == classify_blocks(
                              [status |-> "ok", error |-> NoError,
                               course |-> processed_course, printed |-> <<>>],
                              Tail(course.blocks))
                IN  IF done.status = "error"
                    THEN [done EXCEPT !.course = NoCourse]
                    ELSE done

(***************************************************************************)
(* modules/util.py                                                         *)
(*                                                                         *)
(* A code point above 127 is written as an ASCII character that the        *)
(* catalog texts of this model do not otherwise use:                       *)
(*   _ U+00A0   @ U+00A9   $ U+00AE   ^ U+00BF   { U+00C1   } U+00CD        *)
(*   + U+00E9   ~ U+00F1   = U+2013   | U+2019   < U+201C   > U+201D        *)
(*   # U+00FC and % U+2014, which are not in REPLACE_CHAR_MAP              *)
(***************************************************************************)
REPLACE_CHAR_MAP ==
    << <<"_", " ">>, <<"@", "(c)">>, <<"$", "(r)">>, <<"^", "?">>,
       <<"{", "A">>, <<"}", "I">>, <<"+", "e">>, <<"~", "n">>,
       <<"=", "-">>, <<"|", "'">>, <<"<", "\"">>, <<">", "\"">> >>

UnmappedNonAscii == {"#", "%"}

MappedNonAscii == {REPLACE_CHAR_MAP[k][1] : k \in 1..Len(REPLACE_CHAR_MAP)}

\* ord(char) > 127
non_ascii(c) == c \in MappedNonAscii \cup UnmappedNonAscii

translate_char(c) ==
    IF c \in MappedNonAscii
    THEN (CHOOSE e \in {REPLACE_CHAR_MAP[k] : k \in 1..Len(REPLACE_CHAR_MAP)} : e[1] = c)[2]
    ELSE c

\* text.translate(TRANSLATION_TABLE)
RECURSIVE translate(_)
translate(text) ==
    IF text = "" THEN "" ELSE translate_char(Head(text)) \o translate(Tail(text))

\* lines 30-33 without the test "char not in REPLACE_CHAR_MAP"
RECURSIVE unknown_chars_any_non_ascii(_)
unknown_chars_any_non_ascii(text) ==
    IF text = "" THEN {}
    ELSE (IF non_ascii(Head(text)) THEN {Head(text)} ELSE {})
             \cup unknown_chars_any_non_ascii(Tail(text))

\* lines 30-33: the characters clean_text reports
RECURSIVE unknown_chars(_)
unknown_chars(text) ==
    IF text = "" THEN {}
    ELSE (IF non_ascii(Head(text)) /\ Head(text) \notin MappedNonAscii
          THEN {Head(text)} ELSE {}) \cup unknown_chars(Tail(text))

\* lines 23-40: the value clean_text returns
clean_text(text) == translate(text)

\* the code point and the unicodedata.name of each key of REPLACE_CHAR_MAP,
\* in its order, and of the characters above ASCII that are not keys of it
CodePoints ==
    << <<160, "NO-BREAK SPACE">>, <<169, "COPYRIGHT SIGN">>,
       <<174, "REGISTERED SIGN">>, <<191, "INVERTED QUESTION MARK">>,
       <<193, "LATIN CAPITAL LETTER A WITH ACUTE">>,
       <<205, "LATIN CAPITAL LETTER I WITH ACUTE">>,
       <<233, "LATIN SMALL LETTER E WITH ACUTE">>,
       <<241, "LATIN SMALL LETTER N WITH TILDE">>,
       <<8211, "EN DASH">>, <<8217, "RIGHT SINGLE QUOTATION MARK">>,
       <<8220, "LEFT DOUBLE QUOTATION MARK">>,
       <<8221, "RIGHT DOUBLE QUOTATION MARK">> >>

UnmappedCodePoints ==
    [c \in UnmappedNonAscii |->
        IF c = "#" THEN <<252, "LATIN SMALL LETTER U WITH DIAERESIS">>
        ELSE <<8212, "EM DASH">>]

code_point_entry(char) ==
    IF char \in UnmappedNonAscii THEN UnmappedCodePoints[char]
    ELSE CodePoints[CHOOSE k \in 1..Len(REPLACE_CHAR_MAP) :
                        REPLACE_CHAR_MAP[k][1] = char]

\* ord(char) of a character above the ASCII range
ord(char) == code_point_entry(char)[1]

\* unicodedata.name(char, "<unknown>")
unicodedata_name(char) == code_point_entry(char)[2]

HexChars == "0123456789abcdef"

RECURSIVE hex(_)
hex(n) ==
    IF n < 16 THEN CharAt(HexChars, n + 1)
    ELSE hex(n \div 16) \o CharAt(HexChars, (n % 16) + 1)

RECURSIVE zero_fill(_, _)
zero_fill(s, width) == IF Len(s) >= width THEN s ELSE zero_fill("0" \o s, width)

\* line 37: f"\\u{ord(char):04x}"
codepoint_of(char) == "\\u" \o zero_fill(hex(ord(char)), 4)

\* sorted(unknown_chars, key=ord)
RECURSIVE sorted_by_ord(_)
sorted_by_ord(chars) ==
    IF chars = {} THEN <<>>
    ELSE LET first == CHOOSE c \in chars : \A d \in chars : ord(c) <= ord(d)
         IN  <<first>> \o sorted_by_ord(chars \ {first})

\* line 39: the line printed for one character
diagnostic(char) ==
    codepoint_of(char) \o " => " \o char \o " (" \o unicodedata_name(char) \o ")"

\* lines 34-39 (clean.py lines 40-44): what is printed for a set of characters
print_unknown(chars) ==
    IF chars = {} THEN <<>>
    ELSE LET sorted == sorted_by_ord(chars)
         IN  <<"\nCharacters not in REPLACE_CHAR_MAP:">>
                 \o [i \in 1..Len(sorted) |-> diagnostic(sorted[i])]

\* lines 23-40: a call of clean_text, with what it prints
call_clean_text(text) ==
    [status |-> "ok", value |-> clean_text(text),
     printed |-> print_unknown(unknown_chars(text))]

(***************************************************************************)
(* clean.py: data is the list of the objects of the file, each             *)
(* [has_description, description]                                          *)
(***************************************************************************)
\* lines 30-37: the first pass
RECURSIVE clean_unknown_chars(_)
clean_unknown_chars(objs) ==
    IF objs = <<>> THEN {}
    ELSE (IF Head(objs).has_description THEN unknown_chars(Head(objs).description)
          ELSE {}) \cup clean_unknown_chars(Tail(objs))

\* lines 48-50: the second pass
clean_translate(objs) ==
    [i \in 1..Len(objs) |->
        IF objs[i].has_description
        THEN [objs[i] EXCEPT !.description = translate(@)]
        ELSE objs[i]]

(***************************************************************************)
(* scrape.py                                                               *)
(*                                                                         *)
(* An unexpanded course element is [has_a, has_href, href]; an expanded    *)
(* course element is [has_h3, h3, has_hr, siblings], siblings being the    *)
(* nodes after the <hr>, each [name, text]; a table row is                 *)
(* [tds, has_strong, strong, element] with element the second <td>.        *)
(***************************************************************************)
RECURSIVE all_digits(_)
all_digits(s) == s = "" \/ (isdigit(Head(s)) /\ all_digits(Tail(s)))

\* int(s) of a str: surrounding whitespace is allowed, the rest must be digits
int_of(s, at) ==
    LET t == strip(s)
    IN  IF t # "" /\ all_digits(t) THEN Ok(int_digits(t, 0))
        ELSE Raise("ValueError", at)

\* lines 43-53
get_course_id(unexpanded_element) ==
    IF ~unexpanded_element.has_a THEN Raise("TypeError", "find(\"a\")[\"href\"]")
    ELSE IF ~unexpanded_element.has_href THEN Raise("KeyError", "find(\"a\")[\"href\"]")
    ELSE
      LET pieces == split(unexpanded_element.href, "coid=")
      IN  IF Len(pieces) < 2 THEN Raise("IndexError", "split(\"coid=\")[1]")
          ELSE int_of(pieces[2], "int(course_id)")

\* the loop of lines 72-83 without lines 84-85: what is left in current_block
\* when the siblings end is not made a block
RECURSIVE segment_drops_tail(_, _, _)
segment_drops_tail(siblings, blocks, current_block) ==
    IF siblings = <<>> THEN blocks
    ELSE
      LET sibling == Head(siblings)
      IN  IF sibling.name = "br"
          THEN IF strip(current_block) # ""
               THEN segment_drops_tail(Tail(siblings),
                                       Append(blocks, clean_text(strip(current_block))),
                                       "")
               ELSE segment_drops_tail(Tail(siblings), blocks, current_block)
          ELSE
            LET text == strip(sibling.text)
            IN  segment_drops_tail(Tail(siblings), blocks,
                                   IF text # "" THEN current_block \o " " \o text
                                   ELSE current_block)

\* lines 72-85: the blocks of the siblings after the <hr>
RECURSIVE segment(_, _, _)
segment(siblings, blocks, current_block) ==
    IF siblings = <<>>
    THEN IF strip(current_block) # ""
         THEN Append(blocks, clean_text(strip(current_block)))
         ELSE blocks
    ELSE
      LET sibling == Head(siblings)
      IN  IF sibling.name = "br"
          THEN IF strip(current_block) # ""
               THEN segment(Tail(siblings),
                            Append(blocks, clean_text(strip(current_block))), "")
               ELSE segment(Tail(siblings), blocks, current_block)
          ELSE
            LET text == strip(sibling.text)
            IN  segment(Tail(siblings), blocks,
                        IF text # "" THEN current_block \o " " \o text
                        ELSE current_block)

\* lines 56-93
get_course_info(expanded_element, course_id, department) ==
    IF ~expanded_element.has_h3 THEN Raise("AttributeError", "find(\"h3\").text")
    ELSE IF ~expanded_element.has_hr
         THEN Raise("AttributeError", "find_next_sibling(\"hr\").next_sibling")
    ELSE Ok([course_id |-> course_id,
             department |-> department,
             header |-> clean_text(strip(expanded_element.h3)),
             blocks |-> segment(expanded_element.siblings, <<>>, "")])

\* zip(..., strict=True) without the check of the lengths
zip_truncating(row, len_e, len_u) ==
    IF row < len_e /\ row < len_u THEN "pair" ELSE "stop"

\* lines 114-116: what zip(..., strict=True) does when asked for its next pair
\* after row pairs, the sequences holding len_e and len_u rows
zip_strict(row, len_e, len_u) ==
    IF row < len_e
    THEN IF row < len_u THEN "pair" ELSE "error"
    ELSE IF row < len_u THEN "error" ELSE "stop"

\* loop_body without lines 124-133: a section header row changes nothing
loop_body_keeps_section(expanded_row, unexpanded_row, current_section) ==
    IF expanded_row.tds # 2 \/ unexpanded_row.tds # 2
    THEN [status |-> "continue", current_section |-> current_section]
    ELSE
      LET course_id == get_course_id(unexpanded_row.element)
      IN  IF course_id.status = "error" THEN course_id
          ELSE
            LET course == get_course_info(expanded_row.element, course_id.value,
                                          current_section)
            IN  IF course.status = "error" THEN course
                ELSE [status |-> "append", course |-> course.value,
                      current_section |-> current_section]

\* lines 119-144: the body of the loop for one pair of rows
loop_body(expanded_row, unexpanded_row, current_section) ==
    IF expanded_row.tds # 2 \/ unexpanded_row.tds # 2
    THEN [status |-> "continue",
          current_section |->
              IF expanded_row.tds = 1 /\ expanded_row.has_strong
              THEN strip(expanded_row.strong) ELSE current_section]
    ELSE
      LET course_id == get_course_id(unexpanded_row.element)
      IN  IF course_id.status = "error" THEN course_id
          ELSE
            LET course == get_course_info(expanded_row.element, course_id.value,
                                          current_section)
            IN  IF course.status = "error" THEN course
                ELSE [status |-> "append", course |-> course.value,
                      current_section |-> current_section]


(***************************************************************************)
(* main.py: get_course_info and the dict of courses                        *)
(*                                                                         *)
(* process_page, loop_through_courses, get_course_id and __main__ of       *)
(* main.py are those of scrape.py line for line, but for the collection.   *)
(* A dict is a function from its keys; d[k] = v is Put(d, k, v).           *)
(***************************************************************************)
Put(d, k, v) == (k :> v) @@ d

\* str(n) of an int n >= 0
RECURSIVE str_of_int(_)
str_of_int(n) ==
    IF n < 10 THEN CharAt(DigitChars, n + 1)
    ELSE str_of_int(n \div 10) \o CharAt(DigitChars, (n % 10) + 1)

\* main.py lines 96-110: as lines 71-85 of scrape.py, without clean_text
RECURSIVE main_segment(_, _, _)
main_segment(siblings, blocks, current_block) ==
    IF siblings = <<>>
    THEN IF strip(current_block) # "" THEN Append(blocks, strip(current_block))
         ELSE blocks
    ELSE
      LET sibling == Head(siblings)
      IN  IF sibling.name = "br"
          THEN IF strip(current_block) # ""
               THEN main_segment(Tail(siblings), Append(blocks, strip(current_block)), "")
               ELSE main_segment(Tail(siblings), blocks, current_block)
          ELSE
            LET text == strip(sibling.text)
            IN  main_segment(Tail(siblings), blocks,
                             IF text # "" THEN current_block \o " " \o text
                             ELSE current_block)

\* main.py lines 125-143: the rule that handles one block
main_block_rule(block) ==
    LET b == lower(block)
    IN  IF contains(b, "requisite") \/ startswith(b, "prereq") THEN 1
        ELSE IF b = "undergraduate course not available for graduate credit" THEN 2
        ELSE IF b \in GradCreditBlocks THEN 3
        ELSE IF b = "one or more sections may be offered in any online format." THEN 4
        ELSE IF b = "department consent required" THEN 5
        ELSE IF startswith(b, "typically offered:") THEN 6
        ELSE 7

\* main.py lines 124-143: one iteration of the loop over blocks[1:]
main_classify_block(st, block, course_code) ==
    LET rule == main_block_rule(block)
        course == st.course
    IN  CASE rule = 1 -> [st EXCEPT !.course = Put(course, "prereqs", block)]
          [] rule = 2 -> [st EXCEPT !.course = Put(course, "grad_credit", FALSE)]
          [] rule = 3 -> [st EXCEPT !.course = Put(course, "grad_credit", TRUE)]
          [] rule = 4 -> [st EXCEPT !.course = Put(course, "available_online", TRUE)]
          [] rule = 5 -> [st EXCEPT !.course = Put(course, "requires_dept_consent", TRUE)]
          [] rule = 6 ->
               [st EXCEPT !.course =
                   Put(course, "typically_offered", strip(split(block, ":")[2]))]
          [] OTHER ->
               [st EXCEPT !.printed =
                   Append(@, "unknown block in " \o course_code \o ": " \o block)]

RECURSIVE main_classify_blocks(_, _, _)
main_classify_blocks(st, blocks, course_code) ==
    IF blocks = <<>> THEN st
    ELSE main_classify_blocks(main_classify_block(st, Head(blocks), course_code),
                              Tail(blocks), course_code)

\* main.py lines 53-155
main_get_course_info(expanded_element, course_id, department) ==
    IF ~expanded_element.has_h3 THEN Raise("AttributeError", "find(\"h3\").text")
    ELSE
      LET hf == header_fields(strip(expanded_element.h3))
      IN  IF hf.status = "error" THEN hf
          ELSE IF ~expanded_element.has_hr
               THEN Raise("AttributeError", "find_next_sibling(\"hr\").next_sibling")
          ELSE
            LET blocks == main_segment(expanded_element.siblings, <<>>, "")
            IN  IF Len(blocks) = 0 THEN Raise("IndexError", "blocks[0]")
                ELSE
                  LET course ==
                        [title |-> strip(hf.value.title),
                         description |-> strip(blocks[1]),
                         department |-> department,
                         course_code |-> strip(hf.value.course_code),
                         course_id |-> course_id,
                         units |-> hf.value.units]
                      done == main_classify_blocks(
                                [course |-> course, printed |-> <<>>],
                                Tail(blocks), hf.value.course_code)
                      lv == course_level_of(hf.value.course_code)
                  IN  IF lv.status = "error" THEN [status |-> "error", type |-> lv.type, at |-> lv.at,
                            printed |-> done.printed]
                      ELSE [status |-> "ok", printed |-> done.printed,
                            value |-> Put(done.course, "course_level", lv.value)]

\* the position of key k among the items of the dict, 0 if it is not a key
KeyIndex(items, k) ==
    IF \E i \in 1..Len(items) : items[i].key = k
    THEN CHOOSE i \in 1..Len(items) : items[i].key = k
    ELSE 0

\* main.py lines 181-206: the body of the loop for one pair of rows
main_loop_body(expanded_row, unexpanded_row, current_section) ==
    IF expanded_row.tds # 2 \/ unexpanded_row.tds # 2
    THEN [status |-> "continue",
          current_section |->
              IF expanded_row.tds = 1 /\ expanded_row.has_strong
              THEN strip(expanded_row.strong) ELSE current_section]
    ELSE
      LET course_id == get_course_id(unexpanded_row.element)
      IN  IF course_id.status = "error" THEN course_id
          ELSE
            LET course == main_get_course_info(expanded_row.element, course_id.value,
                                               current_section)
            IN  IF course.status = "error" THEN course
                ELSE [status |-> "store", key |-> str_of_int(course_id.value),
                      course |-> course.value, current_section |-> current_section]

(***************************************************************************)
(* Inputs of reprocess_course                                              *)
(***************************************************************************)
\* blocks that follow the description, at most this many
MaxExtraBlocks == 2

Codes == {"ACCT 201A", "EGCP 10S", "ACCT  201A", "MATH A1", "HONR"}

Titles == {"Financial Accounting", "Self-Study (Lab)"}

UnitTexts == {"3", "1-3"}

\* the header as the catalog writes it, and with a piece left out
Shapes == {"valid", "nodash", "noopen", "noclose"}

Pads == {"", " "}

HeaderParts ==
    [code : Codes, title : Titles, units : UnitTexts, shape : Shapes,
     pad : Pads, upad : Pads]

HeaderOf(p) ==
    p.pad \o p.code \o p.pad
      \o (IF p.shape = "nodash" THEN " " ELSE "-")
      \o p.pad \o p.title \o p.pad
      \o (IF p.shape = "noopen" THEN "" ELSE "(")
      \o p.upad \o p.units \o p.upad
      \o (IF p.shape = "noclose" THEN "" ELSE ")")
      \o p.pad

PlainParts ==
    [code |-> "ACCT 201A", title |-> "Financial Accounting", units |-> "3",
     shape |-> "valid", pad |-> " ", upad |-> ""]

Description == "Accounting concepts and techniques."

BlockPool ==
    {"Prerequisite: ACCT 201A",
     "Prereq: none",
     "Corequisite: MATH 150A",
     "Typically offered: after prerequisite ACCT 201A",
     "Typically offered after the requisite course",
     "Undergraduate course not available for graduate credit",
     "Graduate-level",
     "400-level undergraduate course available for graduate credit",
     "One or more sections may be offered in any online format.",
     "Department consent required",
     "Typically Offered: Fall, Spring",
     "Typically offered Fall",
     "Typically Offered: Fall: odd years",
     "Course may be repeated"}

RECURSIVE SeqsUpTo(_, _)
SeqsUpTo(S, n) ==
    IF n = 0 THEN {<<>>}
    ELSE LET shorter == SeqsUpTo(S, n - 1)
         IN  shorter \cup {Append(q, x) : q \in shorter, x \in S}

BlockSeqs == {<<>>} \cup {<<Description>> \o q : q \in SeqsUpTo(BlockPool, MaxExtraBlocks)}

PlainBlockSeqs ==
    {<<>>, <<Description>>, <<Description, "Department consent required">>}

RawCourseOf(p, blocks) ==
    [course_id |-> 594896, department |-> "Accounting",
     header |-> HeaderOf(p), blocks |-> blocks]

NotCalled == [status |-> "none"]

(***************************************************************************)
(* scrape.py: process_page and __main__                                    *)
(***************************************************************************)
\* pages of the catalog (range(1, 40) in the source, fewer here)
NPages == 2

\* <tr> rows of one table, at most
MaxRows == 2

\* <tr> rows of the longer tables of all pages together, at most
MaxCatalogRows == 3

\* ThreadPoolExecutor(): min(32, os.cpu_count() + 4) threads, so 5 or more
MaxWorkers == 5

Pages == 1..NPages

ValidElement ==
    [has_h3 |-> TRUE, h3 |-> " ACCT 201A = Financial Accounting (3) ", has_hr |-> TRUE,
     siblings |-> << [name |-> "", text |-> " Accounting concepts "],
                     [name |-> "em", text |-> "and techniques."],
                     [name |-> "br", text |-> ""],
                     [name |-> "br", text |-> ""],
                     [name |-> "", text |-> "Department consent required"],
                     [name |-> "br", text |-> ""] >>]

NoElement == [has_h3 |-> FALSE, h3 |-> "", has_hr |-> FALSE, siblings |-> <<>>]

ExpandedRows ==
    {[tds |-> 1, has_strong |-> TRUE, strong |-> " Accounting ", element |-> NoElement],
     [tds |-> 1, has_strong |-> FALSE, strong |-> "", element |-> NoElement],
     [tds |-> 3, has_strong |-> FALSE, strong |-> "", element |-> NoElement],
     [tds |-> 2, has_strong |-> FALSE, strong |-> "", element |-> ValidElement],
     [tds |-> 2, has_strong |-> FALSE, strong |-> "", element |-> NoElement]}

\* the course above as main.py can read it, its header written with "-"
HyphenElement == [ValidElement EXCEPT !.h3 = " ACCT 201A - Financial Accounting (3) "]

\* a course with nothing after its separator
EmptyElement == [HyphenElement EXCEPT !.siblings = <<>>]

\* the rows main.py is served: those above and the two courses with "-"
MainExpandedRows ==
    ExpandedRows \cup
        {[tds |-> 2, has_strong |-> FALSE, strong |-> "", element |-> e] :
            e \in {HyphenElement, EmptyElement}}

Link(href) == [has_a |-> TRUE, has_href |-> TRUE, href |-> href]

NoLink == [has_a |-> FALSE, has_href |-> FALSE, href |-> ""]

UnexpandedRows ==
    {[tds |-> 1, element |-> NoLink],
     [tds |-> 2, element |-> Link("preview_course_nopop.php?catoid=95&coid=594896")],
     [tds |-> 2, element |-> Link("preview_course_nopop.php?catoid=95&coid=594897")],
     [tds |-> 2, element |-> Link("preview_course_nopop.php?catoid=95&coid=")],
     [tds |-> 2, element |-> NoLink]}

\* the values current_section takes: "" and the section headers of the rows
SectionLabels == {""} \cup {strip(r.strong) : r \in {x \in ExpandedRows : x.has_strong}}

\* what the loop body does with each pair of rows the catalog may serve
LoopOutcomes ==
    [current_section \in SectionLabels |->
        {loop_body(expanded_row, unexpanded_row, current_section) :
            expanded_row \in ExpandedRows, unexpanded_row \in UnexpandedRows}]

MainLoopOutcomes ==
    [current_section \in SectionLabels |->
        {main_loop_body(expanded_row, unexpanded_row, current_section) :
            expanded_row \in MainExpandedRows, unexpanded_row \in UnexpandedRows}]

OutcomesOf(prog, current_section) ==
    IF prog = "main.py" THEN MainLoopOutcomes[current_section]
    ELSE LoopOutcomes[current_section]

NotWritten == [written |-> FALSE, courses |-> <<>>]

NoPageError == [type |-> "", at |-> ""]

\* pc, error and exception are the state of the page's future; len_e, len_u,
\* row and current_section are the locals of loop_through_courses, which exist
\* while it runs; lens_differ records whether the two tables the page was
\* served held different numbers of rows
NewPage ==
    [pc |-> "idle", len_e |-> 0, len_u |-> 0, row |-> 0, current_section |-> "",
     lens_differ |-> FALSE, error |-> NoPageError, exception |-> ""]

\* the page's record once loop_through_courses has returned or raised
Returns(pg, pc) ==
    [pg EXCEPT !.pc = pc, !.len_e = 0, !.len_u = 0, !.row = 0, !.current_section = ""]

Finished(p) == page[p].pc \in {"done", "failed"}

Running == {p \in Pages : page[p].pc \in {"fetched", "aligning"}}

NoRaw == [course_id |-> 0, department |-> "", header |-> "", blocks |-> <<>>]

ReprocessNotStarted ==
    /\ raw = NoRaw
    /\ parts = PlainParts
    /\ called = FALSE
    /\ result = NotCalled

\* no table, no fragment and no text has been handed to a function by itself
FunctionsNotCalled ==
    /\ input_text = ""
    /\ cleaned = NotCalled
    /\ data = <<>>
    /\ cleaned_data = NotCalled
    /\ fragment = <<>>
    /\ segmented = NotCalled
    /\ tables = [expanded |-> <<>>, unexpanded |-> <<>>]
    /\ loop = NotCalled

PoolNotEntered ==
    /\ main_pc = "off"
    /\ futures = <<>>
    /\ waited = 0
    /\ page = [p \in Pages |-> NewPage]
    /\ Courses = <<>>
    /\ origin = <<>>
    /\ output = NotWritten
    /\ writes = 0
    /\ outcome = ""
    /\ errors_logged = 0
    /\ rows_left = MaxCatalogRows
    /\ overall_completed = 0

ScrapeNotStarted ==
    /\ program = "reprocess.py"
    /\ PoolNotEntered

\* lines 215-218: the state when the pool is entered
Started(prog) ==
    /\ program = prog
    /\ main_pc = "submit"
    /\ futures = <<>>
    /\ waited = 0
    /\ page = [p \in Pages |-> NewPage]
    /\ Courses = <<>>
    /\ origin = <<>>
    /\ output = NotWritten
    /\ writes = 0
    /\ outcome = ""
    /\ errors_logged = 0
    /\ rows_left = MaxCatalogRows
    /\ overall_completed = 0
    /\ ReprocessNotStarted
    /\ FunctionsNotCalled

Init == Started("scrape.py")

\* main.py lines 277-281
InitMain == Started("main.py")

\* lines 181-191: the except clause of process_page.  The URLs hold
\* "filter[cpage]=", not "cpage=", so the description of the failed task
\* raises IndexError before overall_progress is advanced and before the bare
\* raise: the future ends with that IndexError.
Fail(p, type, at) ==
    /\ page' = [page EXCEPT ![p] = [Returns(@, "failed") EXCEPT
                                       !.error = [type |-> type, at |-> at],
                                       !.exception = "IndexError"]]
    /\ UNCHANGED <<Courses, origin, overall_completed>>

\* lines 220-231: one pool.submit
Submit ==
    /\ main_pc = "submit"
    /\ LET p == Len(futures) + 1
       IN  /\ page' = [page EXCEPT ![p].pc = "queued"]
           /\ futures' = Append(futures, p)
           /\ main_pc' = IF p = NPages THEN "wait" ELSE "submit"
    /\ UNCHANGED <<waited, Courses, origin, output, writes, outcome, errors_logged,
                   rows_left, overall_completed, program, reprocess_vars, function_vars>>

\* lines 161-169: a pool thread takes the page and requests both renderings
FetchPage(p) ==
    /\ page[p].pc = "queued"
    /\ Cardinality(Running) < MaxWorkers
    /\ \/ /\ page' = [page EXCEPT ![p].pc = "fetched"]
          /\ UNCHANGED <<Courses, origin, overall_completed>>
       \/ Fail(p, "ConnectionError", "requests.get")
    /\ UNCHANGED <<main_pc, futures, waited, output, writes, outcome, errors_logged,
                   rows_left, program, reprocess_vars, function_vars>>

\* lines 171-172 and 34-40: the last table_default of each rendering and its rows
GetTables(p) ==
    /\ page[p].pc = "fetched"
    /\ \/ /\ \E le \in 0..MaxRows, lu \in 0..MaxRows :
                /\ le <= rows_left /\ lu <= rows_left
                /\ page' = [page EXCEPT ![p].pc = "aligning", ![p].len_e = le,
                                        ![p].len_u = lu, ![p].lens_differ = (le # lu)]
                /\ rows_left' = rows_left - (IF le > lu THEN le ELSE lu)
          /\ UNCHANGED <<Courses, origin, overall_completed>>
       \/ Fail(p, "IndexError", "find_all(\"table\")[-1]") /\ UNCHANGED rows_left
    /\ UNCHANGED <<main_pc, futures, waited, output, writes, outcome, errors_logged,
                   program, reprocess_vars, function_vars>>

\* lines 114-144 and 179-180: one step of the loop of loop_through_courses,
\* the rows read being whatever the catalog served; main.py line 206 stores
\* the course under its key where scrape.py line 144 appends it
NextRow(p) ==
    /\ page[p].pc = "aligning"
    /\ LET step == zip_strict(page[p].row, page[p].len_e, page[p].len_u)
       IN  \/ /\ step = "pair"
              /\ \E r \in OutcomesOf(program, page[p].current_section) :
                        \/ /\ r.status = "continue"
                             /\ page' = [page EXCEPT ![p].row = @ + 1,
                                            ![p].current_section = r.current_section]
                             /\ UNCHANGED <<Courses, origin, overall_completed>>
                        \/ /\ r.status = "append"
                             /\ Courses' = Append(Courses, r.course)
                             /\ origin' = Append(origin, p)
                             /\ page' = [page EXCEPT ![p].row = @ + 1]
                             /\ UNCHANGED overall_completed
                        \/ /\ r.status = "store"
                             /\ LET i == KeyIndex(Courses, r.key)
                                    item == [key |-> r.key, value |-> r.course]
                                IN  /\ Courses' = IF i = 0 THEN Append(Courses, item)
                                                  ELSE [Courses EXCEPT ![i] = item]
                                    /\ origin' = IF i = 0 THEN Append(origin, p)
                                                 ELSE [origin EXCEPT ![i] = p]
                             /\ page' = [page EXCEPT ![p].row = @ + 1]
                             /\ UNCHANGED overall_completed
                        \/ /\ r.status = "error"
                             /\ Fail(p, r.type, r.at)
           \/ /\ step = "error"
              /\ Fail(p, "ValueError", "zip(strict=True)")
           \/ /\ step = "stop"
              /\ page' = [page EXCEPT ![p] = Returns(@, "done")]
              /\ overall_completed' = overall_completed + 1
              /\ UNCHANGED <<Courses, origin>>
    /\ UNCHANGED <<main_pc, futures, waited, output, writes, outcome, errors_logged,
                   rows_left, program, reprocess_vars, function_vars>>

\* WaitFuture without the try/except around future.result(): the exception of
\* a failed page leaves the loop and ends the script
WaitFuture_reraise ==
    /\ main_pc = "wait"
    /\ LET p == futures[waited + 1]
       IN  /\ Finished(p)
           /\ main_pc' = IF page[p].pc = "failed" THEN "done"
                          ELSE IF waited + 1 = Len(futures) THEN "shutdown" ELSE "wait"
    /\ waited' = waited + 1
    /\ UNCHANGED <<futures, page, Courses, origin, output, writes, outcome,
                   errors_logged, rows_left, overall_completed, program, reprocess_vars, function_vars>>

\* lines 234-239: future.result() on the next future, inside try/except Exception
WaitFuture ==
    /\ main_pc = "wait"
    /\ LET p == futures[waited + 1]
       IN  /\ Finished(p)
           /\ errors_logged' = IF page[p].pc = "failed" THEN errors_logged + 1
                               ELSE errors_logged
    /\ waited' = waited + 1
    /\ main_pc' = IF waited + 1 = Len(futures) THEN "shutdown" ELSE "wait"
    /\ UNCHANGED <<futures, page, Courses, origin, output, writes, outcome,
                   rows_left, overall_completed, program, reprocess_vars, function_vars>>

\* line 219: leaving the with block joins the pool threads
PoolShutdown ==
    /\ main_pc = "shutdown"
    /\ \A p \in Pages : page[p].pc \in {"idle", "done", "failed"}
    /\ main_pc' = "save"
    /\ UNCHANGED <<futures, waited, page, Courses, origin, output, writes, outcome,
                   errors_logged, rows_left, overall_completed, program, reprocess_vars, function_vars>>

\* Save without the test of Courses
Save_unconditional ==
    /\ main_pc = "save"
    /\ output' = [written |-> TRUE, courses |-> Courses]
    /\ writes' = writes + 1
    /\ outcome' = "Successfully saved"
    /\ main_pc' = "done"
    /\ UNCHANGED <<futures, waited, page, Courses, origin, errors_logged,
                   rows_left, overall_completed, program, reprocess_vars, function_vars>>

\* lines 242-247
Save ==
    /\ main_pc = "save"
    /\ IF Courses # <<>>
       THEN /\ output' = [written |-> TRUE, courses |-> Courses]
            /\ writes' = writes + 1
            /\ outcome' = "Successfully saved"
       ELSE /\ outcome' = "No courses were scraped successfully"
            /\ UNCHANGED <<output, writes>>
    /\ main_pc' = "done"
    /\ UNCHANGED <<futures, waited, page, Courses, origin, errors_logged,
                   rows_left, overall_completed, program, reprocess_vars, function_vars>>

Next ==
    \/ Submit
    \/ \E p \in Pages : FetchPage(p)
    \/ \E p \in Pages : GetTables(p)
    \/ \E p \in Pages : NextRow(p)
    \/ WaitFuture
    \/ PoolShutdown
    \/ Save

Spec == Init /\ [][Next]_vars

SpecMain == InitMain /\ [][Next]_vars

(***************************************************************************)
(* reprocess.py: __main__ applies reprocess_course to each course          *)
(***************************************************************************)
\* every header with a few block sequences, and every block sequence with one header;
\* the scraper is not running
InitReprocess ==
    /\ ScrapeNotStarted
    /\ \/ parts \in HeaderParts /\ \E b \in PlainBlockSeqs : raw = RawCourseOf(parts, b)
       \/ parts = PlainParts /\ \E b \in BlockSeqs : raw = RawCourseOf(parts, b)
    /\ called = FALSE
    /\ result = NotCalled
    /\ FunctionsNotCalled

\* reprocess.py line 94: reprocess_course(course)
Reprocess ==
    /\ ~called
    /\ called' = TRUE
    /\ result' = reprocess_course(raw)
    /\ UNCHANGED <<raw, parts, scrape_vars, function_vars>>

NextReprocess == Reprocess

SpecReprocess == InitReprocess /\ [][NextReprocess]_vars

(***************************************************************************)
(* The text normalizer by itself: clean_text of modules/util.py on one     *)
(* text, clean.py on one file                                              *)
(***************************************************************************)
MaxTextLen == 3

MaxDescLen == 1

MaxObjects == 2

\* a letter, a blank, two characters of REPLACE_CHAR_MAP (one with a target of
\* three characters) and the two characters above ASCII that are not in it
TextChars == {"a", " ", "=", "@", "#", "%"}

RECURSIVE StringsUpTo(_, _)
StringsUpTo(chars, n) ==
    IF n = 0 THEN {""}
    ELSE LET shorter == StringsUpTo(chars, n - 1)
         IN  shorter \cup {t \o c : t \in shorter, c \in chars}

Texts == StringsUpTo(TextChars, MaxTextLen)

DescChars == {"a", "=", "#", "%"}

Objects ==
    {[has_description |-> TRUE, description |-> d] :
        d \in StringsUpTo(DescChars, MaxDescLen)}
    \cup {[has_description |-> FALSE, description |-> ""]}

DataFiles == SeqsUpTo(Objects, MaxObjects)

InitUtil ==
    /\ PoolNotEntered
    /\ ReprocessNotStarted
    /\ cleaned = NotCalled
    /\ cleaned_data = NotCalled
    /\ fragment = <<>>
    /\ segmented = NotCalled
    /\ tables = [expanded |-> <<>>, unexpanded |-> <<>>]
    /\ loop = NotCalled
    /\ \/ program = "modules/util.py" /\ input_text \in Texts /\ data = <<>>
       \/ program = "clean.py" /\ input_text = "" /\ data \in DataFiles

\* modules/util.py lines 23-40: clean_text(text)
CleanText ==
    /\ program = "modules/util.py"
    /\ cleaned = NotCalled
    /\ cleaned' = call_clean_text(input_text)
    /\ UNCHANGED <<scrape_vars, reprocess_vars, input_text, data, cleaned_data,
                   fragment, segmented, tables, loop>>

\* clean.py lines 7-57: the run of the script on the file it loaded
CleanData ==
    /\ program = "clean.py"
    /\ cleaned_data = NotCalled
    /\ LET n == str_of_int(Len(data))
       IN  cleaned_data' =
               [status |-> "ok",
                printed |-> <<"Loaded " \o n \o " courses">>
                            \o print_unknown(clean_unknown_chars(data))
                            \o <<"Replacing values using translation table",
                                 "Wrote " \o n \o " courses to "
                                     \o "data/cleaned_2025-2026_catalog.json">>,
                written |-> clean_translate(data)]
    /\ UNCHANGED <<scrape_vars, reprocess_vars, input_text, cleaned, data,
                   fragment, segmented, tables, loop>>

NextUtil == CleanText \/ CleanData

SpecUtil == InitUtil /\ [][NextUtil]_vars

(***************************************************************************)
(* loop_through_courses by itself, on the two tables of one page           *)
(* (scrape.py lines 96-144, main.py lines 158-206)                         *)
(***************************************************************************)
\* what the loop body does with a pair of rows
BodyTable ==
    [expanded_row \in ExpandedRows, unexpanded_row \in UnexpandedRows,
     current_section \in SectionLabels |->
        loop_body(expanded_row, unexpanded_row, current_section)]

MainBodyTable ==
    [expanded_row \in MainExpandedRows, unexpanded_row \in UnexpandedRows,
     current_section \in SectionLabels |->
        main_loop_body(expanded_row, unexpanded_row, current_section)]

BodyOf(prog, expanded_row, unexpanded_row, current_section) ==
    IF prog = "main.py"
    THEN MainBodyTable[expanded_row, unexpanded_row, current_section]
    ELSE BodyTable[expanded_row, unexpanded_row, current_section]

\* line 111 (main.py line 173): the loop is about to ask zip for its first
\* pair; courses is the collection as this call found and changed it, handed
\* the courses this call gave it, in order
LoopEntered ==
    [status |-> "running", row |-> 0, current_section |-> "", courses |-> <<>>,
     handed |-> <<>>, error |-> NoPageError]

InitAlign ==
    /\ PoolNotEntered
    /\ ReprocessNotStarted
    /\ input_text = ""
    /\ cleaned = NotCalled
    /\ data = <<>>
    /\ cleaned_data = NotCalled
    /\ fragment = <<>>
    /\ segmented = NotCalled
    /\ \/ /\ program = "scrape.py"
          /\ \E e \in SeqsUpTo(ExpandedRows, MaxRows),
                u \in SeqsUpTo(UnexpandedRows, MaxRows) :
                 tables = [expanded |-> e, unexpanded |-> u]
       \/ /\ program = "main.py"
          /\ \E e \in SeqsUpTo(MainExpandedRows, MaxRows),
                u \in SeqsUpTo(UnexpandedRows, MaxRows) :
                 tables = [expanded |-> e, unexpanded |-> u]
    /\ loop = LoopEntered

\* lines 114-144 (main.py lines 176-206): one turn of the for loop
LoopStep ==
    /\ loop.status = "running"
    /\ LET next == zip_strict(loop.row, Len(tables.expanded), Len(tables.unexpanded))
       IN  \/ /\ next = "stop"
              /\ loop' = [loop EXCEPT !.status = "returned"]
           \/ /\ next = "error"
              /\ loop' = [loop EXCEPT !.status = "raised",
                                      !.error = [type |-> "ValueError", at |-> "zip"]]
           \/ /\ next = "pair"
              /\ \E r \in {BodyOf(program, tables.expanded[loop.row + 1],
                                    tables.unexpanded[loop.row + 1],
                                    loop.current_section)} :
                     \/ /\ r.status = "continue"
                        /\ loop' = [loop EXCEPT !.row = @ + 1,
                                                !.current_section = r.current_section]
                     \/ /\ r.status = "append"
                        /\ loop' = [loop EXCEPT !.row = @ + 1,
                                                !.courses = Append(@, r.course),
                                                !.handed = Append(@, r.course)]
                     \/ /\ r.status = "store"
                        /\ LET i == KeyIndex(loop.courses, r.key)
                               item == [key |-> r.key, value |-> r.course]
                           IN  loop' = [loop EXCEPT
                                           !.row = @ + 1,
                                           !.courses = IF i = 0 THEN Append(@, item)
                                                       ELSE [@ EXCEPT ![i] = item],
                                           !.handed = Append(@, r.course)]
                     \/ /\ r.status = "error"
                        /\ loop' = [loop EXCEPT
                                        !.status = "raised",
                                        !.error = [type |-> r.type, at |-> r.at]]
    /\ UNCHANGED <<scrape_vars, reprocess_vars, input_text, cleaned, data,
                   cleaned_data, fragment, segmented, tables>>

NextAlign == LoopStep

SpecAlign == InitAlign /\ [][NextAlign]_vars

(***************************************************************************)
(* The segmenter of get_course_info by itself, on the nodes after one <hr> *)
(* (scrape.py lines 71-85, main.py lines 96-110)                           *)
(***************************************************************************)
MaxSiblings == 4

\* a <br>, text nodes (one of blanks only, one with NO-BREAK SPACE around an
\* EN DASH), an <em> and an element without text
SiblingPool ==
    {[name |-> "br", text |-> ""],
     [name |-> "", text |-> " a "],
     [name |-> "", text |-> "  "],
     [name |-> "", text |-> "_=_"],
     [name |-> "em", text |-> "b c"],
     [name |-> "span", text |-> ""]}

InitSegment ==
    /\ PoolNotEntered
    /\ ReprocessNotStarted
    /\ input_text = ""
    /\ cleaned = NotCalled
    /\ data = <<>>
    /\ cleaned_data = NotCalled
    /\ tables = [expanded |-> <<>>, unexpanded |-> <<>>]
    /\ loop = NotCalled
    /\ program \in {"scrape.py", "main.py"}
    /\ fragment \in SeqsUpTo(SiblingPool, MaxSiblings)
    /\ segmented = NotCalled

\* lines 71-85 (main.py lines 96-110)
Segment ==
    /\ segmented = NotCalled
    /\ segmented' =
           [status |-> "ok",
            blocks |-> IF program = "main.py" THEN main_segment(fragment, <<>>, "")
                       ELSE segment(fragment, <<>>, "")]
    /\ UNCHANGED <<scrape_vars, reprocess_vars, input_text, cleaned, data,
                   cleaned_data, fragment, tables, loop>>

NextSegment == Segment

SpecSegment == InitSegment /\ [][NextSegment]_vars

(***************************************************************************)
(* Properties of the scraper                                               *)
(***************************************************************************)
\* the positions of Courses that page p appended
AppendedBy(p) == {i \in 1..Len(Courses) : origin[i] = p}

\* C1: after a run in which page p failed, the output holds no record that
\* came from p.
C1_FailedPageExcluded ==
    main_pc = "done" =>
        \A p \in Pages : page[p].pc = "failed" =>
            ~\E i \in 1..Len(output.courses) : origin[i] = p

\* C2: whichever pages fail and however the threads interleave, a page that
\* has not finished can always take its next step, the run can only stop
\* with __main__ at its end, and there every future has been waited on, every
\* page has finished and every record of a page that succeeded is in the
\* output that was written.
C2_FailureIsolation ==
    /\ \A p \in Pages :
          page[p].pc \in {"queued", "fetched", "aligning"} =>
              ENABLED (FetchPage(p) \/ GetTables(p) \/ NextRow(p))
    /\ ~(ENABLED Next) => main_pc = "done"
    /\ main_pc = "done" =>
          /\ waited = NPages /\ Len(futures) = NPages
          /\ \A p \in Pages : Finished(p)
          /\ \A p \in Pages : page[p].pc = "done" =>
                \A i \in AppendedBy(p) :
                    /\ output.written
                    /\ i <= Len(output.courses)
                    /\ output.courses[i] = Courses[i]

\* a finished run in which one page failed and another succeeded with records
C2_Witness ==
    /\ main_pc = "done"
    /\ \E p, q \in Pages :
          /\ page[p].pc = "failed"
          /\ page[q].pc = "done" /\ AppendedBy(q) # {}
          /\ \A i \in AppendedBy(q) : output.courses[i] = Courses[i]

\* C3: the shared collection holds at most one record per identifier (and so
\* the one inserted last).
C3_OneRecordPerIdentifier ==
    \A i, j \in 1..Len(Courses) :
        i # j => Courses[i].course_id # Courses[j].course_id

C5_LengthMismatchRaises ==
    \A p \in Pages : page[p].pc = "done" => ~page[p].lens_differ

\* a page that failed in zip after a row pair of it had been appended
C5_Witness ==
    \E p \in Pages :
        /\ page[p].pc = "failed" /\ page[p].lens_differ
        /\ page[p].error = [type |-> "ValueError", at |-> "zip(strict=True)"]
        /\ AppendedBy(p) # {}

(***************************************************************************)
(* The dict of main.py, under SpecMain                                     *)
(***************************************************************************)
\* main.py line 206: the dict holds one course per key, and the key of a
\* course is its identifier
MainKeyedByIdentifier ==
    /\ \A i, j \in 1..Len(Courses) : Courses[i].key = Courses[j].key => i = j
    /\ \A i \in 1..Len(Courses) :
            Courses[i].key = str_of_int(Courses[i].value.course_id)

\* main.py line 206: storing a course keeps every key there is, and the
\* value under the key stored is the one of this store
MainLastWriterWins ==
    [][/\ Len(Courses') >= Len(Courses)
       /\ \A i \in 1..Len(Courses) : Courses'[i].key = Courses[i].key]_vars

(***************************************************************************)
(* Properties of reprocess_course                                          *)
(***************************************************************************)
Returned == called /\ result.status = "ok"

ExtraBlocks == IF Len(raw.blocks) = 0 THEN <<>> ELSE Tail(raw.blocks)

\* lower(b), looked up for the blocks of BlockPool
LoweredPool == {<<b, lower(b)>> : b \in BlockPool}

lowered(b) ==
    IF b \in BlockPool THEN (CHOOSE e \in LoweredPool : e[1] = b)[2] ELSE lower(b)

\* the conditions of rules 1 and 6 of the classifier, each taken alone
Rule1Text(b) == contains(lowered(b), "requisite") \/ startswith(lowered(b), "prereq")

Rule6Text(b) == startswith(lowered(b), "typically offered")

OnlineText == "one or more sections may be offered in any online format."

ConsentText == "department consent required"

\* C6: a block that satisfies rule 1 and rule 6 is handled by rule 1 only, at
\* any position: the last block with rule 1's text is the prerequisites,
\* typically_offered only ever comes from a block that has rule 6's text and
\* not rule 1's, and only such a block can raise rule 6's error.
C6_PriorityOrder ==
    LET extra == ExtraBlocks
        idx == 1..Len(extra)
    IN  /\ Returned =>
              /\ \A i \in idx :
                    (Rule1Text(extra[i]) /\ \A j \in idx : j > i => ~Rule1Text(extra[j]))
                        => result.course.prerequisites = extra[i]
              /\ result.course.typically_offered # "" =>
                    \E i \in idx :
                        /\ Rule6Text(extra[i]) /\ ~Rule1Text(extra[i])
                        /\ Len(split(extra[i], ":")) >= 2
                        /\ result.course.typically_offered = strip(split(extra[i], ":")[2])
        /\ (called /\ result.status = "error"
               /\ result.error.at = "block.split(\":\")[1]") =>
              \E i \in idx : Rule6Text(extra[i]) /\ ~Rule1Text(extra[i])

\* a record whose second extra block has the text of rule 1 and of rule 6
C6_Witness ==
    /\ Returned
    /\ Len(ExtraBlocks) = 2
    /\ Rule1Text(ExtraBlocks[2]) /\ Rule6Text(ExtraBlocks[2])
    /\ result.course.prerequisites = ExtraBlocks[2]
    /\ result.course.typically_offered = ""

\* C7: for a header "<CODE> - <TITLE> (<UNITS>)" with any whitespace around
\* each part, the record holds CODE, TITLE and UNITS without that whitespace.
C7_HeaderRoundTrip ==
    (Returned /\ parts.shape = "valid") =>
        /\ result.course.course_code = parts.code
        /\ result.course.title = parts.title
        /\ result.course.units = parts.units

\* str.split() without a separator: the runs of non-whitespace characters
RECURSIVE word_len(_)
word_len(s) == IF s = "" \/ Head(s) \in Whitespace THEN 0 ELSE 1 + word_len(Tail(s))

RECURSIVE ws_tokens(_)
ws_tokens(s) ==
    LET t == lstrip(s)
    IN  IF t = "" THEN <<>>
        ELSE <<SubSeq(t, 1, word_len(t))>> \o ws_tokens(SubSeq(t, word_len(t) + 1, Len(t)))

\* C8: the level is the integer of the leading digits of the second
\* whitespace-separated token of the course code, and a code whose second
\* token has no leading digit gives an error and no record.
C8_LevelOfSecondToken ==
    (called /\ parts.shape = "valid") =>
        LET tokens == ws_tokens(parts.code)
            digits == IF Len(tokens) >= 2 THEN leading_digits(tokens[2]) ELSE ""
        IN  IF digits = "" THEN result.status = "error"
            ELSE /\ result.error.at \notin {"course_number", "int(level_str)"}
                 /\ result.status = "ok" =>
                        result.course.course_level = int_digits(digits, 0)

\* C9: a boolean field is true only if a block has the text of the rule that
\* sets it, and prerequisites and typically_offered are empty when no block
\* has the text of their rule.
C9_DefaultsUnlessMatched ==
    Returned =>
        LET extra == ExtraBlocks
            idx == 1..Len(extra)
            c == result.course
        IN  /\ c.grad_credit => \E i \in idx : lowered(extra[i]) \in GradCreditBlocks
            /\ c.available_online => \E i \in idx : lowered(extra[i]) = OnlineText
            /\ c.requires_dept_consent => \E i \in idx : lowered(extra[i]) = ConsentText
            /\ (\A i \in idx : ~Rule1Text(extra[i])) => c.prerequisites = ""
            /\ (\A i \in idx : ~Rule6Text(extra[i])) => c.typically_offered = ""

\* the record of a course whose only extra block is "Department consent required"
C9_Witness ==
    /\ Returned
    /\ Len(ExtraBlocks) = 1
    /\ lowered(ExtraBlocks[1]) = ConsentText
    /\ result.course.requires_dept_consent
    /\ ~result.course.grad_credit /\ ~result.course.available_online
    /\ result.course.prerequisites = "" /\ result.course.typically_offered = ""

\* C10: reprocessing a RawCourse with no blocks does not raise an index error
\* at the description.
C10_NoIndexErrorOnEmptyBlocks ==
    (called /\ Len(raw.blocks) = 0) =>
        ~(result.status = "error" /\ result.error.type = "IndexError"
            /\ result.error.at = "course[\"blocks\"][0]")

\* the text of a block after its first ":"
after_first_colon(b) == slice(b, find(b, ":") + 1, Len(b))

\* C14: a block that starts with "typically offered" and has the text of no
\* earlier rule never raises, with or without a colon, and if it is the last
\* such block and has a colon, typically_offered is all of its text after
\* the first colon, trimmed.
C14_WholeRemainderAfterFirstColon ==
    LET extra == ExtraBlocks
        idx == 1..Len(extra)
        offered(i) == Rule6Text(extra[i]) /\ ~Rule1Text(extra[i])
    IN  /\ (called /\ result.status = "error")
               => result.error.at # "block.split(\":\")[1]"
        /\ Returned =>
               \A i \in idx :
                   (/\ offered(i)
                    /\ contains(extra[i], ":")
                    /\ \A j \in idx : j > i => ~offered(j))
                       => result.course.typically_offered
                              = strip(after_first_colon(extra[i]))

\* the text of none of the rules 1 to 6
NoRuleText(b) ==
    /\ ~Rule1Text(b)
    /\ lowered(b) # "undergraduate course not available for graduate credit"
    /\ lowered(b) \notin GradCreditBlocks
    /\ lowered(b) # OnlineText
    /\ lowered(b) # ConsentText
    /\ ~Rule6Text(b)

\* a list of blocks without the blocks that have the text of no rule
RECURSIVE without_unmatched(_)
without_unmatched(bs) ==
    IF bs = <<>> THEN <<>>
    ELSE IF NoRuleText(Head(bs)) THEN without_unmatched(Tail(bs))
    ELSE <<Head(bs)>> \o without_unmatched(Tail(bs))

\* the diagnostics of the blocks of a list that have the text of no rule
RECURSIVE unmatched_reports(_, _)
unmatched_reports(bs, course_code) ==
    IF bs = <<>> THEN <<>>
    ELSE (IF NoRuleText(Head(bs))
          THEN <<"Unknown block in " \o course_code \o ": " \o Head(bs)>>
          ELSE <<>>) \o unmatched_reports(Tail(bs), course_code)

\* C15: blocks with the text of no rule change nothing but the diagnostics:
\* the call returns or raises as it does for the record without them, with
\* the same value of every field, so the other blocks are classified as if
\* they were not there, and when it returns each of them has been reported
\* once, in order, with the course code.
C15_UnmatchedBlockOnlyReported ==
    (called /\ Len(raw.blocks) > 0 /\ result.error.at \notin {"header_parts[1]",
                                                             "course_number",
                                                             "int(level_str)"}) =>
        LET others == reprocess_course(
                          [raw EXCEPT !.blocks =
                              <<Head(raw.blocks)>> \o without_unmatched(ExtraBlocks)])
            reports == unmatched_reports(ExtraBlocks, strip(parts.code))
        IN  /\ result.status = others.status
            /\ result.error = others.error
            /\ result.course = others.course
            /\ others.printed = <<>>
            /\ Len(result.printed) <= Len(reports)
            /\ \A k \in 1..Len(result.printed) : result.printed[k] = reports[k]
            /\ Returned => result.printed = reports

\* a record whose first extra block has the text of no rule and whose second
\* is the consent block: the first was reported, the second was classified
C15_Witness ==
    /\ Returned
    /\ Len(ExtraBlocks) = 2
    /\ NoRuleText(ExtraBlocks[1])
    /\ lowered(ExtraBlocks[2]) = ConsentText
    /\ result.course.requires_dept_consent
    /\ result.printed = <<"Unknown block in ACCT 201A: " \o ExtraBlocks[1]>>

\* C16: a header whose part after the first "-" has no "(" or no ")" gives
\* an error, never a record.
C16_MissingParenthesisFails ==
    called =>
        LET dash == find(raw.header, "-")
            rest == slice(raw.header, dash + 1, Len(raw.header))
        IN  (dash # -1 /\ (~contains(rest, "(") \/ ~contains(rest, ")")))
                => result.status = "error"

(***************************************************************************)
(* Properties of the text normalizer                                       *)
(***************************************************************************)
\* the characters of a str
chars_of(s) == {CharAt(s, i) : i \in 1..Len(s)}

\* the ASCII text REPLACE_CHAR_MAP gives for character c, c itself if it
\* gives none
target_of(c) ==
    LET ks == {k \in 1..Len(REPLACE_CHAR_MAP) : REPLACE_CHAR_MAP[k][1] = c}
    IN  IF ks = {} THEN c ELSE REPLACE_CHAR_MAP[CHOOSE k \in ks : TRUE][2]

\* a str with each character replaced by its target, left to right
RECURSIVE targets_of(_, _)
targets_of(s, i) ==
    IF i > Len(s) THEN "" ELSE target_of(CharAt(s, i)) \o targets_of(s, i + 1)

\* the characters of a str that are above ASCII and not in REPLACE_CHAR_MAP
unmapped_of(s) == {c \in chars_of(s) : non_ascii(c) /\ c \notin MappedNonAscii}

\* the lines that follow the heading line in what was printed, the heading
\* being at position h
reports_after(printed, h, n) == [i \in 1..n |-> printed[h + i]]

\* among lines, each character of unmapped has exactly one line, that names
\* its code point, the character and its name, and there is no other line
once_per_character(lines, unmapped) ==
    /\ Len(lines) = Cardinality(unmapped)
    /\ \A c \in unmapped :
           Cardinality({i \in 1..Len(lines) : lines[i] = diagnostic(c)}) = 1

\* C11: clean_text returns its text with every character of the
\* substitution map replaced by its ASCII target and every other character
\* unchanged, and it reports each character above ASCII that is not in the
\* map exactly once per call, however often it occurs, and nothing when
\* there is none; clean.py does the same to the descriptions of a file.
C11_NormalizerReportsOncePerCharacter ==
    /\ cleaned # NotCalled =>
          /\ cleaned.value = targets_of(input_text, 1)
          /\ chars_of(cleaned.value) \cap MappedNonAscii = {}
          /\ chars_of(input_text) \cap MappedNonAscii = {} => cleaned.value = input_text
          /\ LET unmapped == unmapped_of(input_text)
             IN  IF unmapped = {} THEN cleaned.printed = <<>>
                 ELSE /\ Len(cleaned.printed) = 1 + Cardinality(unmapped)
                      /\ once_per_character(
                             reports_after(cleaned.printed, 1, Cardinality(unmapped)),
                             unmapped)
    /\ cleaned_data # NotCalled =>
          /\ Len(cleaned_data.written) = Len(data)
          /\ \A i \in 1..Len(data) :
                 /\ cleaned_data.written[i].has_description = data[i].has_description
                 /\ cleaned_data.written[i].description =
                        targets_of(data[i].description, 1)
          /\ LET unmapped ==
                     UNION {unmapped_of(data[i].description) : i \in 1..Len(data)}
             IN  /\ Len(cleaned_data.printed) =
                        (IF unmapped = {} THEN 3 ELSE 4 + Cardinality(unmapped))
                    /\ unmapped # {} =>
                           once_per_character(
                               reports_after(cleaned_data.printed, 2,
                                             Cardinality(unmapped)),
                               unmapped)

\* clean_text was called on a text that holds a character of the map and
\* twice the same character that is not in it
C11_Witness ==
    /\ cleaned # NotCalled
    /\ chars_of(input_text) \cap MappedNonAscii # {}
    /\ \E i, j \in 1..Len(input_text) :
           /\ i < j
           /\ CharAt(input_text, i) = CharAt(input_text, j)
           /\ CharAt(input_text, i) \in UnmappedNonAscii
    /\ Len(cleaned.printed) = 2

(***************************************************************************)
(* Properties of loop_through_courses                                      *)
(***************************************************************************)
\* the two rows at position i of the tables both have exactly two cells
content_row(i) == tables.expanded[i].tds = 2 /\ tables.unexpanded[i].tds = 2

\* the expanded row at position i has one cell, with a bolded label
labelled_row(i) == tables.expanded[i].tds = 1 /\ tables.expanded[i].has_strong

\* the section label that is active at position i: the label of the last
\* labelled row before i, "" if there is none
label_at(i) ==
    LET before == {j \in 1..(i - 1) : labelled_row(j)}
    IN  IF before = {} THEN ""
        ELSE strip(tables.expanded[CHOOSE j \in before : \A k \in before : k <= j].strong)

\* the positions of the content rows among the first n, in document order
RECURSIVE content_rows(_)
content_rows(n) ==
    IF n = 0 THEN <<>>
    ELSE IF content_row(n) THEN Append(content_rows(n - 1), n)
    ELSE content_rows(n - 1)

breaks == {0, Len(fragment) + 1} \cup {i \in 1..Len(fragment) : fragment[i].name = "br"}

\* the runs of the fragment: the pairs of breaks with no break between them
run_bounds == {b \in breaks \X breaks :
                  b[1] < b[2] /\ ~\E k \in breaks : b[1] < k /\ k < b[2]}

\* the stripped texts of the nodes from position i to position j, those that
\* are not empty, joined by single spaces
RECURSIVE joined_texts(_, _)
joined_texts(i, j) ==
    IF i > j THEN ""
    ELSE LET rest == joined_texts(i + 1, j)
             t == strip(fragment[i].text)
         IN  IF t = "" THEN rest
             ELSE IF rest = "" THEN t
             ELSE t \o " " \o rest

\* the text of the run between two breaks, normalized by scrape.py
run_block(b) ==
    LET t == joined_texts(b[1] + 1, b[2] - 1)
    IN  IF program = "main.py" THEN t ELSE targets_of(t, 1)

\* the runs that hold text, in document order
RECURSIVE runs_in_order(_)
runs_in_order(bs) ==
    IF bs = {} THEN <<>>
    ELSE LET first == CHOOSE b \in bs : \A c \in bs : b[1] <= c[1]
         IN  <<first>> \o runs_in_order(bs \ {first})

text_runs == runs_in_order({b \in run_bounds : joined_texts(b[1] + 1, b[2] - 1) # ""})

\* C13: the blocks of a fragment are, in order, its maximal runs of nodes
\* between line breaks that hold text, each the non-empty stripped texts of
\* its nodes joined by single spaces (normalized in scrape.py); no block is
\* empty or begins or ends with whitespace, and a fragment without a line
\* break gives one block, or none if it has no text.
C13_BlocksAreRunsBetweenBreaks ==
    segmented # NotCalled =>
        /\ Len(segmented.blocks) = Len(text_runs)
        /\ \A k \in 1..Len(text_runs) : segmented.blocks[k] = run_block(text_runs[k])
        /\ \A k \in 1..Len(segmented.blocks) :
               /\ segmented.blocks[k] # ""
               /\ strip(segmented.blocks[k]) = segmented.blocks[k]
        /\ (\A i \in 1..Len(fragment) : fragment[i].name # "br") =>
               /\ Len(segmented.blocks) <= 1
               /\ Len(segmented.blocks) = 1 <=>
                      \E i \in 1..Len(fragment) : strip(fragment[i].text) # ""

\* a fragment of text, two line breaks and text, without a line break at its
\* end, was segmented into two blocks
C13_Witness ==
    /\ segmented # NotCalled
    /\ Len(fragment) = 4
    /\ fragment[1].name # "br"
    /\ fragment[2].name = "br"
    /\ fragment[3].name = "br"
    /\ fragment[4].name # "br"
    /\ Len(segmented.blocks) = 2

====
